---- MODULE Spec2Model ----
(***************************************************************************)
(* Grid occupancy, movement resolution and input handling of the roguelike *)
(* prototype (src/roguelike/__init__.py, map.py, entity.py).               *)
(*                                                                         *)
(* The window builds a Map, places the player on a fixed tile and a fixed  *)
(* number of NPCs on random tiles, then reacts to host-loop callbacks:     *)
(* update (tick), on_key_press, on_key_release, on_resize (Spec); with     *)
(* on_activate and on_deactivate, which register update with the clock     *)
(* (SpecFocus); and with the player's move taken one assignment at a time  *)
(* between the callbacks (SpecSteps).                                      *)
(* The program's values -- a 100x100 grid, the player on (24,13), ten NPCs *)
(* -- are scaled down to Cols x Rows, (PlayerCol, PlayerRow) and NumNpcs;  *)
(* as in the program, the player's tile lies inside the range the NPC      *)
(* positions are drawn from.                                               *)
(***************************************************************************)
EXTENDS Integers, Sequences, FiniteSets, TLC

\* ------------------------------------------------------------------ bounds
\* Map((Cols, Rows), ...): the program builds Map((100, 100), ...).
Cols == 3
Rows == 2
\* create_entities runs range(NumNpcs); the program runs range(10).
NumNpcs == 1
\* place_player: place_entity(player, PlayerCol, PlayerRow); the program
\* places the player on (24, 13).
PlayerCol == 0
PlayerRow == 1

\* ------------------------------------------------------- program constants
IMG_FONT_SCALE == 2
IMG_FONT_WIDTH == 10
IMG_FONT_HEIGHT == 10
tile_width == IMG_FONT_WIDTH * IMG_FONT_SCALE
tile_height == IMG_FONT_HEIGHT * IMG_FONT_SCALE

\* main(): GameWindow(960, 540, ...)
InitWidth == 960
InitHeight == 540

\* class Directions(enum.Enum)
Directions ==
    [ LEFT       |-> <<-1, 0>>,
      LEFT_UP    |-> <<-1, 1>>,
      UP         |-> <<0, 1>>,
      RIGHT_UP   |-> <<1, 1>>,
      RIGHT      |-> <<1, 0>>,
      RIGHT_DOWN |-> <<1, -1>>,
      DOWN       |-> <<0, -1>>,
      LEFT_DOWN  |-> <<-1, -1>> ]

\* KEY_TO_DIR, keyed by the name of the pyglet key symbol
KEY_TO_DIR ==
    [ LEFT  |-> "LEFT",
      NUM_4 |-> "LEFT",
      NUM_7 |-> "LEFT_UP",
      UP    |-> "UP",
      NUM_8 |-> "UP",
      NUM_9 |-> "RIGHT_UP",
      RIGHT |-> "RIGHT",
      NUM_6 |-> "RIGHT",
      NUM_3 |-> "RIGHT_DOWN",
      DOWN  |-> "DOWN",
      NUM_2 |-> "DOWN",
      NUM_1 |-> "LEFT_DOWN" ]

\* ------------------------------------------------------------------ values
\* Entity names: Player is "player", create_entities names f"npc{i}".
Player == "player"
NpcNames == <<"npc0", "npc1", "npc2", "npc3", "npc4",
              "npc5", "npc6", "npc7", "npc8", "npc9">>
Npcs == { NpcNames[k] : k \in 1..NumNpcs }
Entities == {Player} \cup Npcs

\* The value 0 that create_grid stores in a tile's "entity" field.
NoEntity == "0"
\* Python's None for Entity.action and Player.movement_repeat_key; the empty
\* tuple () of Entity.occupied_tile.
NoAction == <<>>
NoKey == "None"
NoTile == <<>>

\* ActionMove(dx, dy) as the pair <<dx, dy>>.
ActionMove(dx, dy) == <<dx, dy>>
IsActionMove(a) == a # NoAction

\* Inputs of the host loop.  Key symbols: keys of KEY_TO_DIR whose directions
\* reach every tile, two keys of one direction, and one key outside the table.
KeyInputs == {"LEFT", "NUM_4", "NUM_3", "UP", "SPACE"}
\* Window sizes delivered by on_resize: the size main() asks for, the
\* smallest window, and one just wider and higher than a tile.
SizeInputs == {<<InitWidth, InitHeight>>, <<1, 1>>, <<21, 21>>}

VARIABLES
    pc,                   \* "place_player", "create_entities", "run", "crashed"; inside
                          \* a move taken in steps: "vacated", "slot_set", "placed"
    level_grid,           \* Map.level_grid["entity"][row][col]
    occupied_tile,        \* Entity.occupied_tile, <<col, row>> or NoTile
    action,               \* Entity.action
    movement_repeat_key,  \* Player.movement_repeat_key
    entities,             \* Map.entities / GameWindow.entities, in creation order
    view_target,          \* GameWindow.view_target
    width, height,        \* window size
    event,                \* the last callback the host loop ran: <<name, key symbol,
                          \* the player's action before a key callback>>
    calls,                \* per entity: how often update called its action in the last tick
    returned,             \* per entity: what that call returned ("True", "False", "none")
    sprite_active,        \* Map.level_grid["sprite"]["active"][row][col]
    clock,                \* how many times pyglet.clock holds GameWindow.update
    focus                 \* the last activation event: "new", "activated", "deactivated"

vars == <<pc, level_grid, occupied_tile, action, movement_repeat_key, entities,
          view_target, width, height, event, calls, returned,
          sprite_active, clock, focus>>

NoCalls == [e \in Entities |-> 0]
NoReturn == [e \in Entities |-> "none"]

\* ------------------------------------------------------------ Map (grid)
\* numpy indexing of one axis of length n: indices in [-n, n) are valid and
\* negative ones count from the end; anything else raises IndexError.
IndexOk(i, n) == i >= -n /\ i < n
Wrap(i, n) == IF i < 0 THEN i + n ELSE i

GridAt(lg, row, col) == lg[Wrap(row, Rows)][Wrap(col, Cols)]

\* The part of the program state that place_entity and ActionMove touch.
\* fault is the exception that left the call, "" when none did.
World(lg, occ, view, fault) ==
    [level_grid |-> lg, occupied_tile |-> occ, view_target |-> view, fault |-> fault]

\* Variant of place_entity that records the tile as (row, col).
place_entity_swapped(w, entity, col, row) ==
    IF ~IndexOk(row, Rows) \/ ~IndexOk(col, Cols)
    THEN [w EXCEPT !.fault = "IndexError"]
    ELSE IF GridAt(w.level_grid, row, col) # NoEntity
    THEN [w EXCEPT !.fault = "AssertionError"]
    ELSE [w EXCEPT !.level_grid[Wrap(row, Rows)][Wrap(col, Cols)] = entity,
                   !.occupied_tile[entity] = <<row, col>>]

\* Map.place_entity
place_entity(w, entity, col, row) ==
    IF ~IndexOk(row, Rows) \/ ~IndexOk(col, Cols)
    THEN [w EXCEPT !.fault = "IndexError"]
    ELSE IF GridAt(w.level_grid, row, col) # NoEntity
    THEN [w EXCEPT !.fault = "AssertionError"]
    ELSE [w EXCEPT !.level_grid[Wrap(row, Rows)][Wrap(col, Cols)] = entity,
                   !.occupied_tile[entity] = <<col, row>>]

\* Variant of can_move_to without the occupancy test.
can_move_to_unchecked(lg, col, row) ==
    IF col >= Cols \/ row >= Rows \/ col < 0 \/ row < 0
    THEN FALSE
    ELSE TRUE

\* Variant of can_move_to without the tests against 0.
can_move_to_no_lower(lg, col, row) ==
    IF col >= Cols \/ row >= Rows
    THEN FALSE
    ELSE IF GridAt(lg, row, col) # NoEntity
    THEN FALSE
    ELSE TRUE

\* Map.can_move_to
can_move_to(lg, col, row) ==
    IF col >= Cols \/ row >= Rows \/ col < 0 \/ row < 0
    THEN FALSE
    ELSE IF GridAt(lg, row, col) # NoEntity
    THEN FALSE
    ELSE TRUE

\* Map.create_grid: the "active" field of every tile's sprite record starts
\* False; no statement of the program assigns it afterwards.
create_grid == [row \in 0..(Rows - 1) |-> [col \in 0..(Cols - 1) |-> FALSE]]

\* pyglet.clock.schedule_interval(self.update, ...): one more entry for update.
schedule_interval(c) == c + 1

\* pyglet.clock.unschedule(self.update): every entry for update is removed.
unschedule(c) == 0

\* GameWindow.move_view
move_view(target, w, h) ==
    <<target[1] * tile_width - (w \div 2) + (tile_width \div 2),
      target[2] * tile_height - (h \div 2) + (tile_height \div 2)>>

\* Variant of ActionMove.__call__ that does not vacate the source tile.
ActionMove_call_no_vacate(w, wd, ht, entity, a) ==
    IF w.occupied_tile[entity] = NoTile
    THEN [world |-> [w EXCEPT !.fault = "AssertionError"], ret |-> FALSE]
    ELSE
    LET src == w.occupied_tile[entity]
        target_col == src[1] + a[1]
        target_row == src[2] + a[2]
    IN  IF can_move_to(w.level_grid, target_col, target_row)
        THEN LET placed == place_entity(w, entity, target_col, target_row)
             IN  IF placed.fault # ""
                 THEN [world |-> placed, ret |-> FALSE]
                 ELSE [world |-> [placed EXCEPT !.view_target =
                                     move_view(placed.occupied_tile[entity], wd, ht)],
                       ret |-> TRUE]
        ELSE [world |-> w, ret |-> FALSE]

\* Variant of ActionMove.__call__ that re-centres the view on a refused move too.
ActionMove_call_view_always(w, wd, ht, entity, a) ==
    IF w.occupied_tile[entity] = NoTile
    THEN [world |-> [w EXCEPT !.fault = "AssertionError"], ret |-> FALSE]
    ELSE
    LET src == w.occupied_tile[entity]
        target_col == src[1] + a[1]
        target_row == src[2] + a[2]
    IN  IF can_move_to(w.level_grid, target_col, target_row)
        THEN LET cleared == [w EXCEPT
                     !.level_grid[Wrap(src[2], Rows)][Wrap(src[1], Cols)] = NoEntity]
                 placed == place_entity(cleared, entity, target_col, target_row)
             IN  IF placed.fault # ""
                 THEN [world |-> placed, ret |-> FALSE]
                 ELSE [world |-> [placed EXCEPT !.view_target =
                                     move_view(placed.occupied_tile[entity], wd, ht)],
                       ret |-> TRUE]
        ELSE [world |-> [w EXCEPT !.view_target = move_view(src, wd, ht)], ret |-> FALSE]

\* ActionMove.__call__: the world after the call and the value returned.
ActionMove_call(w, wd, ht, entity, a) ==
    IF w.occupied_tile[entity] = NoTile
    THEN [world |-> [w EXCEPT !.fault = "AssertionError"], ret |-> FALSE]
    ELSE
    LET src == w.occupied_tile[entity]
        target_col == src[1] + a[1]
        target_row == src[2] + a[2]
    IN  IF can_move_to(w.level_grid, target_col, target_row)
        THEN LET cleared == [w EXCEPT
                     !.level_grid[Wrap(src[2], Rows)][Wrap(src[1], Cols)] = NoEntity]
                 placed == place_entity(cleared, entity, target_col, target_row)
             IN  IF placed.fault # ""
                 THEN [world |-> placed, ret |-> FALSE]
                 ELSE [world |-> [placed EXCEPT !.view_target =
                                     move_view(placed.occupied_tile[entity], wd, ht)],
                       ret |-> TRUE]
        ELSE [world |-> w, ret |-> FALSE]

Here == World(level_grid, occupied_tile, view_target, "")

\* ------------------------------------------------------ GameWindow.update
\* The loop "for entity in self.entities: if entity.action: entity.action(...)",
\* from the k-th entity on.  c and rt collect the calls made and their results.
RECURSIVE EntityLoop(_, _, _, _, _, _, _, _)
EntityLoop(w, wd, ht, acts, ents, k, c, rt) ==
    IF k > Len(ents) \/ w.fault # ""
    THEN [world |-> w, calls |-> c, returned |-> rt, action |-> acts]
    ELSE LET entity == ents[k]
         IN  IF acts[entity] # NoAction
             THEN LET r == ActionMove_call(w, wd, ht, entity, acts[entity])
                  IN  EntityLoop(r.world, wd, ht, acts, ents, k + 1,
                                 [c EXCEPT ![entity] = @ + 1],
                                 [rt EXCEPT ![entity] = IF r.ret THEN "True" ELSE "False"])
             ELSE EntityLoop(w, wd, ht, acts, ents, k + 1, c, rt)

\* Variant of update that clears the player's action when its move was refused.
update_clears_failed(w, wd, ht, acts, ents) ==
    IF acts[Player] = NoAction
    THEN [world |-> w, calls |-> NoCalls, returned |-> NoReturn, action |-> acts]
    ELSE LET r == ActionMove_call(w, wd, ht, Player, acts[Player])
             c == [NoCalls EXCEPT ![Player] = 1]
             rt == [NoReturn EXCEPT ![Player] = IF r.ret THEN "True" ELSE "False"]
         IN  IF ~r.ret
             THEN [world |-> r.world, calls |-> c, returned |-> rt,
                   action |-> [acts EXCEPT ![Player] = NoAction]]
             ELSE EntityLoop(r.world, wd, ht, acts, ents, 1, c, rt)

\* Variant of update that clears the player's action once its move was applied.
update_clears_done(w, wd, ht, acts, ents) ==
    IF acts[Player] = NoAction
    THEN [world |-> w, calls |-> NoCalls, returned |-> NoReturn, action |-> acts]
    ELSE LET r == ActionMove_call(w, wd, ht, Player, acts[Player])
             c == [NoCalls EXCEPT ![Player] = 1]
             rt == [NoReturn EXCEPT ![Player] = IF r.ret THEN "True" ELSE "False"]
         IN  IF ~r.ret
             THEN [world |-> r.world, calls |-> c, returned |-> rt, action |-> acts]
             ELSE [EntityLoop(r.world, wd, ht, acts, ents, 1, c, rt)
                     EXCEPT !.action = [acts EXCEPT ![Player] = NoAction]]

\* Variant of update that resolves the player's action a second time.
update_resolves_twice(w, wd, ht, acts, ents) ==
    IF acts[Player] = NoAction
    THEN [world |-> w, calls |-> NoCalls, returned |-> NoReturn, action |-> acts]
    ELSE LET first == ActionMove_call(w, wd, ht, Player, acts[Player])
             r == ActionMove_call(first.world, wd, ht, Player, acts[Player])
             c == [NoCalls EXCEPT ![Player] = 2]
             rt == [NoReturn EXCEPT ![Player] = IF r.ret THEN "True" ELSE "False"]
         IN  IF ~r.ret
             THEN [world |-> r.world, calls |-> c, returned |-> rt, action |-> acts]
             ELSE EntityLoop(r.world, wd, ht, acts, ents, 1, c, rt)

\* GameWindow.update: the player's action first; the other entities only when
\* the player had an action and it succeeded.  No branch assigns an entity's
\* action: the result carries the actions as they were.
update(w, wd, ht, acts, ents) ==
    IF acts[Player] = NoAction
    THEN [world |-> w, calls |-> NoCalls, returned |-> NoReturn, action |-> acts]
    ELSE LET r == ActionMove_call(w, wd, ht, Player, acts[Player])
             c == [NoCalls EXCEPT ![Player] = 1]
             rt == [NoReturn EXCEPT ![Player] = IF r.ret THEN "True" ELSE "False"]
         IN  IF ~r.ret
             THEN [world |-> r.world, calls |-> c, returned |-> rt, action |-> acts]
             ELSE EntityLoop(r.world, wd, ht, acts, ents, 1, c, rt)

\* Variant of on_key_press that ignores a press while a move is pending.
on_key_press_first_wins(act, key, symbol) ==
    IF symbol \in DOMAIN KEY_TO_DIR /\ ~IsActionMove(act)
    THEN LET move == Directions[KEY_TO_DIR[symbol]]
         IN  [action |-> ActionMove(move[1], move[2]), movement_repeat_key |-> symbol]
    ELSE [action |-> act, movement_repeat_key |-> key]

\* Variant of on_key_press that does not record the pressed key.
on_key_press_no_token(act, key, symbol) ==
    IF symbol \in DOMAIN KEY_TO_DIR
    THEN LET move == Directions[KEY_TO_DIR[symbol]]
         IN  [action |-> ActionMove(move[1], move[2]), movement_repeat_key |-> key]
    ELSE [action |-> act, movement_repeat_key |-> key]

\* Variant of on_key_press that passes the delta's components in reverse order.
on_key_press_transposed(act, key, symbol) ==
    IF symbol \in DOMAIN KEY_TO_DIR
    THEN LET move == Directions[KEY_TO_DIR[symbol]]
         IN  [action |-> ActionMove(move[2], move[1]), movement_repeat_key |-> symbol]
    ELSE [action |-> act, movement_repeat_key |-> key]

\* GameWindow.on_key_press: the player's action and repeat key afterwards.
on_key_press(act, key, symbol) ==
    IF symbol \in DOMAIN KEY_TO_DIR
    THEN LET move == Directions[KEY_TO_DIR[symbol]]
         IN  [action |-> ActionMove(move[1], move[2]), movement_repeat_key |-> symbol]
    ELSE [action |-> act, movement_repeat_key |-> key]

\* Variant of on_key_release that does not compare the released key.
on_key_release_any(act, key, symbol) ==
    IF IsActionMove(act)
    THEN [action |-> NoAction, movement_repeat_key |-> key]
    ELSE [action |-> act, movement_repeat_key |-> key]

\* GameWindow.on_key_release
on_key_release(act, key, symbol) ==
    IF IsActionMove(act) /\ key = symbol
    THEN [action |-> NoAction, movement_repeat_key |-> key]
    ELSE [action |-> act, movement_repeat_key |-> key]

\* -------------------------------------------------------------- shorthands
InGrid(col, row) == col >= 0 /\ col < Cols /\ row >= 0 /\ row < Rows
Placed == { e \in Entities : occupied_tile[e] # NoTile }
MoveTarget(e, d) ==
    <<occupied_tile[e][1] + Directions[d][1], occupied_tile[e][2] + Directions[d][2]>>
PendingTarget(e) ==
    <<occupied_tile[e][1] + action[e][1], occupied_tile[e][2] + action[e][2]>>
DirNames == DOMAIN Directions

\* pyglet.app.run(): the host loop runs one callback at a time, to its end;
\* it dispatches the next one only when no callback is running.  p is the
\* program's position.
Dispatching_reentrant(p) == p \in {"run", "vacated", "slot_set", "placed"}

Dispatching(p) == p = "run"

\* ------------------------------------------------------------------- Init
\* GameWindow.__init__ up to Map.__init__ after create_grid: every tile's
\* entity field is 0, no entity is placed, view_target is the window centre.
Init ==
    /\ pc = "place_player"
    /\ level_grid = [r \in 0..(Rows - 1) |-> [c \in 0..(Cols - 1) |-> NoEntity]]
    /\ occupied_tile = [e \in Entities |-> NoTile]
    /\ action = [e \in Entities |-> NoAction]
    /\ movement_repeat_key = NoKey
    /\ entities = <<>>
    /\ width = InitWidth
    /\ height = InitHeight
    /\ view_target = <<InitWidth \div 2, InitHeight \div 2>>
    /\ event = <<"__init__", "", NoAction>>
    /\ calls = NoCalls
    /\ returned = NoReturn
    /\ sprite_active = create_grid
    /\ clock = 0
    /\ focus = "new"

\* Writes a world back to the variables; an exception ends the program.
Commit(w, nextpc) ==
    /\ level_grid' = w.level_grid
    /\ occupied_tile' = w.occupied_tile
    /\ view_target' = w.view_target
    /\ pc' = IF w.fault # "" THEN "crashed" ELSE nextpc

\* Map.place_player
PlacePlayer ==
    /\ pc = "place_player"
    /\ Commit(place_entity(Here, Player, PlayerCol, PlayerRow), "create_entities")
    /\ UNCHANGED <<action, movement_repeat_key, entities, width, height,
                   event, calls, returned, sprite_active, clock, focus>>

\* One iteration of Map.create_entities; the last one ends construction,
\* and GameWindow.__init__ then registers update with the clock.
CreateEntity ==
    /\ pc = "create_entities"
    /\ Len(entities) < NumNpcs
    /\ \E rand_x \in 0..(Rows - 2), rand_y \in 0..(Cols - 2) :
          LET ent == NpcNames[Len(entities) + 1]
              w == place_entity(Here, ent, rand_x, rand_y)
          IN  /\ Commit(w, IF Len(entities) + 1 = NumNpcs
                            THEN "run" ELSE "create_entities")
              /\ entities' = IF w.fault = "" THEN Append(entities, ent) ELSE entities
    /\ clock' = IF pc' = "run" THEN schedule_interval(clock) ELSE clock
    /\ UNCHANGED <<action, movement_repeat_key, width, height, event, calls, returned,
                   sprite_active, focus>>

\* A tick of the clock: GameWindow.update
Update ==
    /\ pc = "run"
    /\ clock > 0
    /\ LET u == update(Here, width, height, action, entities)
       IN  /\ Commit(u.world, "run")
           /\ calls' = u.calls
           /\ returned' = u.returned
           /\ action' = u.action
    /\ event' = <<"update", "", NoAction>>
    /\ UNCHANGED <<movement_repeat_key, entities, width, height,
                   sprite_active, clock, focus>>

\* GameWindow.on_key_press
KeyPress ==
    /\ Dispatching(pc)
    /\ \E symbol \in KeyInputs :
          LET p == on_key_press(action[Player], movement_repeat_key, symbol)
          IN  /\ action' = [action EXCEPT ![Player] = p.action]
              /\ movement_repeat_key' = p.movement_repeat_key
              /\ event' = <<"on_key_press", symbol, action[Player]>>
    /\ calls' = NoCalls
    /\ returned' = NoReturn
    /\ UNCHANGED <<pc, level_grid, occupied_tile, entities, view_target, width, height,
                   sprite_active, clock, focus>>

\* GameWindow.on_key_release
KeyRelease ==
    /\ Dispatching(pc)
    /\ \E symbol \in KeyInputs :
          LET p == on_key_release(action[Player], movement_repeat_key, symbol)
          IN  /\ action' = [action EXCEPT ![Player] = p.action]
              /\ movement_repeat_key' = p.movement_repeat_key
              /\ event' = <<"on_key_release", symbol, action[Player]>>
    /\ calls' = NoCalls
    /\ returned' = NoReturn
    /\ UNCHANGED <<pc, level_grid, occupied_tile, entities, view_target, width, height,
                   sprite_active, clock, focus>>

\* GameWindow.on_resize
Resize ==
    /\ Dispatching(pc)
    /\ \E sz \in SizeInputs :
          /\ width' = sz[1]
          /\ height' = sz[2]
          /\ IF occupied_tile[Player] = NoTile
             THEN pc' = "crashed" /\ view_target' = view_target
             ELSE pc' = pc /\ view_target' = move_view(occupied_tile[Player], sz[1], sz[2])
    /\ event' = <<"on_resize", "", NoAction>>
    /\ calls' = NoCalls
    /\ returned' = NoReturn
    /\ UNCHANGED <<level_grid, occupied_tile, action, movement_repeat_key, entities,
                   sprite_active, clock, focus>>

Next ==
    \/ PlacePlayer
    \/ CreateEntity
    \/ Update
    \/ KeyPress
    \/ KeyRelease
    \/ Resize

Spec == Init /\ [][Next]_vars

\* GameWindow.on_draw draws the grid translated by -view_target: the window
\* shows the grid pixels from view_target up to view_target + window size.
\* Tile (col, row) covers tile_width x tile_height pixels from
\* (col * tile_width, row * tile_height), as move_view computes them.
tile_shown(col, row, view, w, h) ==
    /\ col * tile_width < view[1] + w
    /\ (col + 1) * tile_width > view[1]
    /\ row * tile_height < view[2] + h
    /\ (row + 1) * tile_height > view[2]

\* ------------------------------------------------ activation and the clock
\* GameWindow.on_activate: the window gained the focus.  The host delivers
\* activation and deactivation in turn; the first event after construction
\* may be either.
on_activate ==
    /\ pc = "run"
    /\ focus # "activated"
    /\ clock' = schedule_interval(clock)
    /\ focus' = "activated"
    /\ event' = <<"on_activate", "", NoAction>>
    /\ calls' = NoCalls
    /\ returned' = NoReturn
    /\ UNCHANGED <<pc, level_grid, occupied_tile, action, movement_repeat_key, entities,
                   view_target, width, height, sprite_active>>

\* GameWindow.on_deactivate: the window lost the focus.
on_deactivate ==
    /\ pc = "run"
    /\ focus # "deactivated"
    /\ clock' = unschedule(clock)
    /\ focus' = "deactivated"
    /\ event' = <<"on_deactivate", "", NoAction>>
    /\ calls' = NoCalls
    /\ returned' = NoReturn
    /\ UNCHANGED <<pc, level_grid, occupied_tile, action, movement_repeat_key, entities,
                   view_target, width, height, sprite_active>>

\* ------------------------------------------------- a move, step by step
\* The statements of ActionMove.__call__ and place_entity for the player's
\* move, one assignment per step, to expose the states in between.  The
\* other entities have no pending move here, so the entity loop of update
\* does nothing after the player's move.
update_enter ==
    /\ pc = "run"
    /\ clock > 0
    /\ IsActionMove(action[Player])
    /\ can_move_to(level_grid, PendingTarget(Player)[1], PendingTarget(Player)[2])
    /\ level_grid' = [level_grid EXCEPT
                        ![occupied_tile[Player][2]][occupied_tile[Player][1]] = NoEntity]
    /\ pc' = "vacated"
    /\ event' = <<"update", "", NoAction>>
    /\ calls' = [NoCalls EXCEPT ![Player] = 1]
    /\ returned' = NoReturn
    /\ UNCHANGED <<occupied_tile, action, movement_repeat_key, entities, view_target,
                   width, height, sprite_active, clock, focus>>

\* place_entity: self.level_grid["entity"][row][col] = entity
place_entity_slot ==
    /\ pc = "vacated"
    /\ LET t == PendingTarget(Player)
           w == place_entity(Here, Player, t[1], t[2])
       IN  /\ level_grid' = w.level_grid
           /\ pc' = IF w.fault # "" THEN "crashed" ELSE "slot_set"
    /\ UNCHANGED <<occupied_tile, action, movement_repeat_key, entities, view_target,
                   width, height, event, calls, returned, sprite_active, clock, focus>>

\* place_entity: entity.occupied_tile = (col, row)
place_entity_tile ==
    /\ pc = "slot_set"
    /\ \E r \in 0..(Rows - 1), c \in 0..(Cols - 1) :
          /\ level_grid[r][c] = Player
          /\ occupied_tile[Player] # <<c, r>>
          /\ occupied_tile' = [occupied_tile EXCEPT ![Player] = <<c, r>>]
    /\ pc' = "placed"
    /\ UNCHANGED <<level_grid, action, movement_repeat_key, entities, view_target,
                   width, height, event, calls, returned, sprite_active, clock, focus>>

\* window.move_view(entity.occupied_tile); return True; update returns.
update_leave ==
    /\ pc = "placed"
    /\ view_target' = move_view(occupied_tile[Player], width, height)
    /\ returned' = [returned EXCEPT ![Player] = "True"]
    /\ pc' = "run"
    /\ UNCHANGED <<level_grid, occupied_tile, action, movement_repeat_key, entities,
                   width, height, event, calls, sprite_active, clock, focus>>

\* A tick in which the player has no pending move or its move is refused.
update_still ==
    /\ ~ ( /\ IsActionMove(action[Player])
           /\ can_move_to(level_grid, PendingTarget(Player)[1], PendingTarget(Player)[2]) )
    /\ Update

\* GameWindow.on_draw: reads view_target and draws; assigns nothing.
on_draw ==
    /\ Dispatching(pc)
    /\ event' = <<"on_draw", "", NoAction>>
    /\ calls' = NoCalls
    /\ returned' = NoReturn
    /\ UNCHANGED <<pc, level_grid, occupied_tile, action, movement_repeat_key, entities,
                   view_target, width, height, sprite_active, clock, focus>>

NextSteps ==
    \/ PlacePlayer
    \/ CreateEntity
    \/ update_enter
    \/ place_entity_slot
    \/ place_entity_tile
    \/ update_leave
    \/ update_still
    \/ KeyPress
    \/ KeyRelease
    \/ Resize
    \/ on_draw

SpecSteps == Init /\ [][NextSteps]_vars

\* The window with its activation events: construction, ticks of the clock,
\* the keyboard, resizes, and the focus coming and going.
NextFocus ==
    \/ PlacePlayer
    \/ CreateEntity
    \/ Update
    \/ KeyPress
    \/ KeyRelease
    \/ Resize
    \/ on_activate
    \/ on_deactivate

SpecFocus == Init /\ [][NextFocus]_vars

\* ================================================================= claims

\* C1 -- dual-pointer invariant: in every reachable state, for every cell
\* (col,row) and every entity e, the grid's entity slot at (col,row) holds e
\* if and only if e.occupied_tile = (col,row).
C1_DualPointer ==
    \A r \in 0..(Rows - 1), c \in 0..(Cols - 1), e \in Entities :
        (level_grid[r][c] = e) <=> (occupied_tile[e] = <<c, r>>)

\* A tick in which the player moved off its start tile, which is empty now.
C1_Witness ==
    /\ pc = "run" /\ event[1] = "update"
    /\ returned[Player] = "True"
    /\ occupied_tile[Player] # <<PlayerCol, PlayerRow>>
    /\ level_grid[PlayerRow][PlayerCol] = NoEntity

\* C2 -- two entities never occupy the same tile: no two placed entities share
\* occupied_tile; a move of any entity in any direction onto an occupied tile
\* returns False and changes nothing; a placement of any entity onto an
\* occupied tile fails (its assertion) and changes neither the grid nor any
\* entity's position.
C2_NoSharedTile ==
    /\ \A e1, e2 \in Placed : e1 # e2 => occupied_tile[e1] # occupied_tile[e2]
    /\ LET here == Here
       IN  \A e \in Placed, d \in DirNames :
             LET t == MoveTarget(e, d)
             IN  (InGrid(t[1], t[2]) /\ level_grid[t[2]][t[1]] # NoEntity)
                 => ActionMove_call(here, width, height, e, Directions[d])
                      = [world |-> here, ret |-> FALSE]
    /\ LET here == Here
       IN  \A r \in 0..(Rows - 1), c \in 0..(Cols - 1) :
             level_grid[r][c] # NoEntity
             => \A e \in Entities :
                  place_entity(here, e, c, r) = [here EXCEPT !.fault = "AssertionError"]

\* The player's move was just refused because an NPC stands on the target.
C2_Witness ==
    /\ pc = "run" /\ event[1] = "update"
    /\ returned[Player] = "False"
    /\ LET t == PendingTarget(Player)
       IN  InGrid(t[1], t[2]) /\ level_grid[t[2]][t[1]] \in Npcs

\* C3 -- every placed entity's occupied_tile (col,row) satisfies
\* 0 <= col < cols and 0 <= row < rows, during level creation and after any
\* sequence of moves.
C3_InBounds ==
    \A e \in Placed : InGrid(occupied_tile[e][1], occupied_tile[e][2])

\* The player just moved onto the bottom row, and the move still pending
\* would take it off the grid.
C3_Witness ==
    /\ pc = "run" /\ event[1] = "update"
    /\ occupied_tile[Player][2] = 0
    /\ returned[Player] = "True"
    /\ ~InGrid(PendingTarget(Player)[1], PendingTarget(Player)[2])

\* C4 -- successful move: for every placed entity and every direction whose
\* target is inside the grid and unoccupied, the resolver returns True
\* without fault, the source slot is empty, the target slot holds the
\* entity, occupied_tile is exactly the target, and no other slot or entity
\* changes.
C4_SuccessfulMove ==
    LET here == Here
    IN  \A e \in Placed, d \in DirNames :
          LET t == MoveTarget(e, d)
              src == occupied_tile[e]
          IN  (InGrid(t[1], t[2]) /\ level_grid[t[2]][t[1]] = NoEntity)
              => LET m == ActionMove_call(here, width, height, e, Directions[d])
                 IN  /\ m.ret = TRUE
                     /\ m.world.fault = ""
                     /\ m.world.occupied_tile = [occupied_tile EXCEPT ![e] = t]
                     /\ m.world.level_grid =
                          [level_grid EXCEPT ![src[2]][src[1]] = NoEntity,
                                             ![t[2]][t[1]] = e]

\* The player just moved diagonally onto the bottom-right corner.
C4_Witness ==
    /\ pc = "run" /\ event[1] = "update"
    /\ returned[Player] = "True"
    /\ action[Player] = <<1, -1>>
    /\ occupied_tile[Player] = <<Cols - 1, 0>>
    /\ level_grid[0][Cols - 1] = Player
    /\ level_grid[1][Cols - 2] = NoEntity

\* C5 -- a move whose target lies outside the grid fails silently: for every
\* placed entity and every direction leading off the grid the resolver
\* returns False, raises nothing, and leaves every entity's position, every
\* grid slot and the camera offset as they were.
C5_OutOfBoundsMove ==
    LET here == Here
    IN  \A e \in Placed, d \in DirNames :
          LET t == MoveTarget(e, d)
          IN  ~InGrid(t[1], t[2])
              => ActionMove_call(here, width, height, e, Directions[d])
                   = [world |-> here, ret |-> FALSE]

\* The player stands on the left edge and its move LEFT was just refused.
C5_Witness ==
    /\ pc = "run" /\ event[1] = "update"
    /\ occupied_tile[Player][1] = 0
    /\ action[Player] = <<-1, 0>>
    /\ returned[Player] = "False"
    /\ calls[Player] = 1

C7_AppliedMoveClearsPending ==
    [][(event'[1] = "update" /\ returned'[Player] = "True")
       => action'[Player] = NoAction]_vars

\* C7 as amended -- update leaves the pending move and the input token in
\* place after applying the move; an applied move advances the player by
\* exactly the pending delta (one cell per tick); and the player's pending
\* move goes from set to cleared only in on_key_release of the recorded key.
C7_AppliedMoveStaysPending ==
    [][/\ (event'[1] = "update" /\ returned'[Player] = "True")
          => /\ IsActionMove(action[Player])
             /\ action' = action
             /\ movement_repeat_key' = movement_repeat_key
             /\ occupied_tile'[Player] =
                  <<occupied_tile[Player][1] + action[Player][1],
                    occupied_tile[Player][2] + action[Player][2]>>
       /\ (IsActionMove(action[Player]) /\ ~IsActionMove(action'[Player]))
          => event' = <<"on_key_release", movement_repeat_key, action[Player]>>
      ]_vars

\* The player's move was applied in the last tick and is still pending.
C7_Witness ==
    /\ pc = "run" /\ event[1] = "update"
    /\ returned[Player] = "True" /\ calls[Player] = 1
    /\ IsActionMove(action[Player])
    /\ can_move_to(level_grid, PendingTarget(Player)[1], PendingTarget(Player)[2])

\* C8 -- last key wins: after on_key_press of a key of KEY_TO_DIR the player's
\* pending move is that key's direction and movement_repeat_key is that key,
\* whatever was pending before.
C8_LastKeyWins ==
    (event[1] = "on_key_press" /\ event[2] \in DOMAIN KEY_TO_DIR)
    => /\ action[Player] = Directions[KEY_TO_DIR[event[2]]]
       /\ movement_repeat_key = event[2]

\* NUM_3 was pressed while a move LEFT was pending, and replaced it.
C8_Witness ==
    /\ event = <<"on_key_press", "NUM_3", <<-1, 0>>>>
    /\ action[Player] = <<1, -1>>
    /\ movement_repeat_key = "NUM_3"

\* C9 -- on_key_release of the key recorded in movement_repeat_key clears the
\* player's pending move; on_key_release of any other key leaves the pending
\* move as it was; the recorded key is never changed by a release.
C9_ReleaseCancelsMatching ==
    [][event'[1] = "on_key_release"
       => /\ movement_repeat_key' = movement_repeat_key
          /\ action' = [action EXCEPT ![Player] =
                IF IsActionMove(action[Player]) /\ movement_repeat_key = event'[2]
                THEN NoAction ELSE action[Player]]
      ]_vars

\* NUM_4 was released while the move LEFT requested with the LEFT key was
\* pending: both keys mean LEFT, and the move is still pending.
C9_Witness ==
    /\ event = <<"on_key_release", "NUM_4", <<-1, 0>>>>
    /\ action[Player] = <<-1, 0>>
    /\ movement_repeat_key = "LEFT"

C11_RoundTrip ==
    LET here == Here
    IN  \A e \in Placed, d \in DirNames :
          LET there == ActionMove_call(here, width, height, e, Directions[d])
              back == ActionMove_call(there.world, width, height, e,
                                      ActionMove(-Directions[d][1], -Directions[d][2]))
          IN  there.ret
              => /\ back.ret
                 /\ back.world.fault = ""
                 /\ back.world.occupied_tile = occupied_tile
                 /\ back.world.level_grid = level_grid

\* The player just moved UP, and the move DOWN from here is accepted and
\* leads to the tile it came from.
C11_Witness ==
    /\ pc = "run" /\ event[1] = "update"
    /\ returned[Player] = "True"
    /\ action[Player] = <<0, 1>>
    /\ LET back == ActionMove_call(Here, width, height, Player, ActionMove(0, -1))
       IN  /\ back.ret
           /\ back.world.occupied_tile[Player]
                = <<occupied_tile[Player][1], occupied_tile[Player][2] - 1>>

\* C12 -- after a tick in which some move was applied, and after a window
\* resize, the stored camera offset equals the offset derived from the
\* player's occupied_tile and the current window size; a move applied to a
\* non-player entity does not take the camera away from the player.
C12_CameraOnPlayer ==
    /\ (/\ pc = "run"
        /\ \/ event[1] = "on_resize"
           \/ event[1] = "update" /\ \E e \in Entities : returned[e] = "True")
       => view_target = move_view(occupied_tile[Player], width, height)
    /\ pc = "run"
       => LET here == Here
          IN  \A e \in Entities, d \in DirNames :
                LET r == ActionMove_call(here, width, height, e, Directions[d])
                IN  r.ret => r.world.view_target
                               = move_view(r.world.occupied_tile[Player], width, height)

\* C13 -- once the window runs, after any sequence of moves and resizes,
\* every tile the window shows has its active flag set and every other tile
\* has it cleared.
C13_ActiveIffShown ==
    pc = "run"
    => \A row \in 0..(Rows - 1), col \in 0..(Cols - 1) :
          sprite_active[row][col] <=> tile_shown(col, row, view_target, width, height)

\* C14 -- for every window size from 1x1 pixel up, once the camera has been
\* moved to the focus cell (the player's tile) by a resize or a move, the
\* number of tile columns and of tile rows the window shows is odd and at
\* least 1, and the window contains the focus cell.  The shown columns
\* (rows) are those of the tile lattice along the player's row (column) that
\* tile_shown finds in the window; the lattice extends beyond the grid, and
\* the range examined is wider than the widest window of SizeInputs.
C14_OddVisibleCount ==
    LET focus_col == occupied_tile[Player][1]
        focus_row == occupied_tile[Player][2]
        reach == InitWidth \div tile_width
        shown_cols == { c \in (focus_col - reach)..(focus_col + reach) :
                          tile_shown(c, focus_row, view_target, width, height) }
        shown_rows == { r \in (focus_row - reach)..(focus_row + reach) :
                          tile_shown(focus_col, r, view_target, width, height) }
    IN  (/\ pc = "run"
         /\ \/ event[1] = "on_resize"
            \/ event[1] = "update" /\ returned[Player] = "True")
        => /\ Cardinality(shown_cols) >= 1
           /\ Cardinality(shown_cols) % 2 = 1
           /\ Cardinality(shown_rows) >= 1
           /\ Cardinality(shown_rows) % 2 = 1
           /\ tile_shown(focus_col, focus_row, view_target, width, height)

\* C15 -- a placement whose coordinates lie outside [0,Cols) x [0,Rows),
\* negative ones included, fails, and leaves every grid slot and every
\* entity's occupied_tile as they were.
C15_OutOfBoundsPlacement ==
    LET here == Here
    IN  \A e \in Entities, col \in (-1)..Cols, row \in (-1)..Rows :
          ~InGrid(col, row)
          => LET p == place_entity(here, e, col, row)
             IN  /\ p.fault # ""
                 /\ p.level_grid = level_grid
                 /\ p.occupied_tile = occupied_tile

\* C16 -- a placement call for an entity that already occupies a tile is
\* rejected with a failure and changes nothing: afterwards no entity is held
\* by two grid slots.
C16_PlacedEntityRejected ==
    LET here == Here
    IN  \A e \in Placed, col \in 0..(Cols - 1), row \in 0..(Rows - 1) :
          LET p == place_entity(here, e, col, row)
          IN  /\ p.fault # ""
              /\ p.level_grid = level_grid
              /\ p.occupied_tile = occupied_tile
              /\ Cardinality({ t \in (0..(Rows - 1)) \X (0..(Cols - 1)) :
                                 p.level_grid[t[1]][t[2]] = e }) <= 1

\* C17 -- the direction table has exactly eight members with pairwise
\* distinct deltas, each component in {-1,0,1} and none (0,0); every key of
\* KEY_TO_DIR maps to one of them; the pending move a key press creates
\* carries exactly that member's delta, and a successful resolution of it
\* adds exactly that delta to the player's tile.
C17_DirectionTable ==
    /\ Cardinality(DirNames) = 8
    /\ Cardinality({ Directions[d] : d \in DirNames }) = 8
    /\ \A d \in DirNames :
          /\ Directions[d][1] \in {-1, 0, 1}
          /\ Directions[d][2] \in {-1, 0, 1}
          /\ Directions[d] # <<0, 0>>
    /\ \A k \in DOMAIN KEY_TO_DIR : KEY_TO_DIR[k] \in DirNames
    /\ LET here == Here
       IN  \A k \in DOMAIN KEY_TO_DIR :
             LET delta == Directions[KEY_TO_DIR[k]]
                 pressed == on_key_press(action[Player], movement_repeat_key, k)
             IN  /\ pressed.action = ActionMove(delta[1], delta[2])
                 /\ occupied_tile[Player] # NoTile
                    => LET r == ActionMove_call(here, width, height, Player,
                                                pressed.action)
                       IN  r.ret => r.world.occupied_tile[Player]
                                      = <<occupied_tile[Player][1] + delta[1],
                                          occupied_tile[Player][2] + delta[2]>>
    /\ (pc = "run" /\ event[1] = "on_key_press" /\ event[2] \in DOMAIN KEY_TO_DIR)
          => action[Player] = Directions[KEY_TO_DIR[event[2]]]

\* NUM_3 was pressed and the tick that followed moved the player from its
\* start tile by RIGHT_DOWN's delta.
C17_Witness ==
    /\ pc = "run" /\ event[1] = "update"
    /\ movement_repeat_key = "NUM_3"
    /\ action[Player] = Directions[KEY_TO_DIR["NUM_3"]]
    /\ returned[Player] = "True"
    /\ occupied_tile[Player] = <<PlayerCol + Directions.RIGHT_DOWN[1],
                                 PlayerRow + Directions.RIGHT_DOWN[2]>>

\* Some placed entity and the grid disagree: the slot of its tile does not
\* hold it, or another slot does.
Torn ==
    \E e \in Placed :
       \/ level_grid[occupied_tile[e][2]][occupied_tile[e][1]] # e
       \/ \E r \in 0..(Rows - 1), c \in 0..(Cols - 1) :
             level_grid[r][c] = e /\ occupied_tile[e] # <<c, r>>
Observers == {"on_draw", "on_key_press", "on_key_release", "on_resize"}

\* C18 -- a move is atomic with respect to the other callbacks of the host
\* loop: no step of on_draw, on_key_press, on_key_release or on_resize starts
\* in a state where a tile has been vacated while the entity still points at
\* it, or a tile holds an entity that still points at another tile.
C18_MoveAtomic ==
    [][event'[1] \in Observers => ~Torn]_vars

\* Inside a move: the target slot already holds the player while
\* occupied_tile still names the vacated source.
C18_Witness ==
    /\ pc = "slot_set"
    /\ level_grid[occupied_tile[Player][2]][occupied_tile[Player][1]] = NoEntity
    /\ level_grid[PendingTarget(Player)[2]][PendingTarget(Player)[1]] = Player
    /\ Torn

\* C19 -- level creation always completes: whatever the random draws, no
\* assertion fails and no index is out of range, and once the window runs
\* the player and every NPC stand on pairwise distinct tiles inside the grid.
C19_CreationCompletes ==
    /\ event[1] = "__init__" => pc # "crashed"
    /\ pc = "run"
         => /\ Placed = Entities
            /\ \A e \in Entities : InGrid(occupied_tile[e][1], occupied_tile[e][2])
            /\ \A e1, e2 \in Entities :
                  e1 # e2 => occupied_tile[e1] # occupied_tile[e2]

\* C20 -- after any sequence of window construction, activate and
\* deactivate events, update is registered with the clock at most once, and
\* not at all while the window is deactivated.
C20_RegisteredAtMostOnce ==
    /\ clock <= 1
    /\ focus = "deactivated" => clock = 0

\* C21 -- the pending move and the input token stay consistent: in every
\* state reached by key presses and releases (and the ticks and resizes
\* between them), whenever the player's pending action is a move,
\* movement_repeat_key is a key of KEY_TO_DIR whose direction's delta is the
\* pending move's (dx, dy).
C21_TokenMatchesPending ==
    IsActionMove(action[Player])
    => /\ movement_repeat_key \in DOMAIN KEY_TO_DIR
       /\ Directions[KEY_TO_DIR[movement_repeat_key]] = action[Player]

\* While the move pressed with NUM_3 was pending, another key was released:
\* the move is still pending and NUM_3 is still the recorded key.
C21_Witness ==
    /\ pc = "run" /\ event[1] = "on_key_release"
    /\ event[2] = "LEFT"
    /\ event[3] = Directions.RIGHT_DOWN
    /\ action[Player] = Directions.RIGHT_DOWN
    /\ movement_repeat_key = "NUM_3"

====
